---- MODULE Spec2Model ----
(***************************************************************************)
(* Model of the harvest-cache-score pipeline of vivatech_analyzer.py:      *)
(* CacheManager (TTL cache), AsyncWebScraper (bounded-concurrency fetch),  *)
(* ClaudeAnalyzer (remote scorer with keyword fallback) and                *)
(* VivaTechAnalyzerV2.analyze_startups_async (the orchestrator).           *)
(*                                                                         *)
(* Conventions.                                                            *)
(*  - A string is a sequence of symbols.  URLs are made of the symbols     *)
(*    "sp" (a whitespace character), "http://", "https://" and host names; *)
(*    texts are sequences of words that single spaces separate.            *)
(*  - A Python dict is a function whose domain is its key set; d.get(k,v)  *)
(*    is Get(d, k, v).                                                     *)
(*  - Time is counted in days.  datetime.isoformat() / fromisoformat() are *)
(*    modelled as a tagged encoding that only parses when well formed.     *)
(*  - Scores are counted in half points (2.5 points = 5 half points).      *)
(***************************************************************************)
EXTENDS Integers, Sequences, FiniteSets, TLC

\* ------------------------------------------------------------------ bounds
MaxTargets == 2
MaxRuns == 2
MaxTime == 7
MaxConcurrent == 2
MaxFaults == 1
MaxWords == 2
MaxRepeat == 11
MaxCalls == 3
MaxReads == 2
MaxApiCalls == 3

\* ------------------------------------------------------- program constants
cache_duration_days == 7
ContentCap == 3000
WebsiteContentCap == 500
KeywordsFoundCap == 10

\* ------------------------------------------------------------------- state
VARIABLES
    targets,          \* df_to_analyze: the rows, in input order
    max_concurrent,   \* AsyncWebScraper.max_concurrent of the running program, 0 between runs
    enabled,          \* ClaudeAnalyzer.enabled
    cache,            \* CacheManager.cache: key -> cache_data
    now,              \* datetime.now(), in days
    run,              \* number of batches started so far
    with_callback,    \* scrape_websites_batch got a progress_callback
    phase,            \* "idle", "scraping", "scoring", "done", "raised"
    task,             \* per index: position of the scrape_single_website coroutine
    outcome,          \* per index: Returned(dict) or Raised(error) once finished
    done_order,       \* indices of the finished coroutines, in completion order
    sem,              \* asyncio.Semaphore._value
    waiters,          \* asyncio.Semaphore._waiters (FIFO)
    gets,             \* per index: session.get calls issued in this batch
    progress,         \* calls progress_callback(completed, total) made in this batch
    website_results,  \* list returned by scrape_websites_batch
    scored_startups,  \* VivaTechAnalyzerV2.scored_startups
    lastSuccess,      \* history: WEBSITE value -> time of its last HTTP 200 fetch
    faults,           \* history: number of store corruptions so far
    written,          \* history: url -> last payload and time given to cache_content,
                      \* the write before it, and the reads since
    got,              \* history: last get_cached_content call and what it returned
    scored,           \* an analyze_startup_relevance call: its arguments, then its result
    calls,            \* history: None, then the score calls made on one ClaudeAnalyzer
    reported,         \* None, then what the last reporting function called put out
    api_calls         \* history: number of CacheManager calls made directly so far

\* -------------------------------------------------------------- utilities
Min(a, b) == IF a < b THEN a ELSE b
Max(a, b) == IF a > b THEN a ELSE b

Take(s, n) == SubSeq(s, 1, Min(Len(s), n))

Get(d, k, default) == IF k \in DOMAIN d THEN d[k] ELSE default

EmptyDict == [k \in {} |-> 0]

RECURSIVE SumSeq(_)
SumSeq(s) == IF s = <<>> THEN 0 ELSE Head(s) + SumSeq(Tail(s))

\* -------------------------------------------------------------------- URLs
NaN == <<"NaN">>

RECURSIVE lstrip(_)
lstrip(s) == IF s # <<>> /\ Head(s) = "sp" THEN lstrip(Tail(s)) ELSE s

RECURSIVE rstrip(_)
rstrip(s) == IF s # <<>> /\ s[Len(s)] = "sp" THEN rstrip(SubSeq(s, 1, Len(s) - 1)) ELSE s

strip(s) == rstrip(lstrip(s))

startswith_scheme(s) == s # <<>> /\ Head(s) \in {"http://", "https://"}

\* url = str(url).strip(); prefix https:// when no scheme
clean_url(url) ==
    LET u == strip(url)
    IN  IF startswith_scheme(u) THEN u ELSE <<"https://">> \o u

\* not url or pd.isna(url)
url_missing(url) == url = <<>> \/ url = NaN

\* ------------------------------------------------------------ CacheManager
None == [py |-> "None"]

\* Python truthiness of a dict-or-None value
Truthy(d) == d # None /\ DOMAIN d # {}

\* mutant of get_cache_key: the scheme is dropped before hashing, so two URLs
\* that differ in their scheme only share a key
get_cache_key_noscheme(url) ==
    LET rest(x) == x \notin {"http://", "https://"}
    IN  [md5 |-> SelectSeq(url, rest)]

\* hashlib.md5(url.encode()).hexdigest(): a digest of exactly the string it
\* is given (MD5 taken as collision-free on the strings of the model)
get_cache_key(url) == [md5 |-> url]

\* datetime.isoformat() and datetime.fromisoformat()
isoformat(t) == [fmt |-> "iso", t |-> t]
iso_parses(ts) == "fmt" \in DOMAIN ts /\ ts.fmt = "iso"
fromisoformat(ts) == ts.t

Returned(v) == [kind |-> "return", value |-> v]
Raised(e) == [kind |-> "raise", value |-> [error |-> e]]

\* mutant of is_fresh: an entry exactly one cache duration old still counts
is_fresh_inclusive(t, cached_time) == t - cached_time <= cache_duration_days

\* cache_duration test of get_cached_content
is_fresh(t, cached_time) == t - cached_time < cache_duration_days

\* CacheManager.get_cached_content, on store contents `store` at time t
get_cached_content(store, url, t) ==
    LET cache_key == get_cache_key(url)
        cached_data == Get(store, cache_key, None)
    IN  IF Truthy(cached_data) /\ "timestamp" \in DOMAIN cached_data
        THEN IF ~iso_parses(cached_data.timestamp)
             THEN Raised(<<"ValueError">>)
             ELSE IF is_fresh(t, fromisoformat(cached_data.timestamp))
                  THEN Returned(cached_data.content)
                  ELSE Returned(None)
        ELSE Returned(None)

\* mutant of get_cached_content's effect on the store: an expired entry is
\* deleted by the lookup that finds it expired
store_after_get_purge(store, url, t) ==
    LET cache_key == get_cache_key(url)
        cached_data == Get(store, cache_key, None)
    IN  IF /\ Truthy(cached_data) /\ "timestamp" \in DOMAIN cached_data
           /\ iso_parses(cached_data.timestamp)
           /\ ~is_fresh(t, fromisoformat(cached_data.timestamp))
        THEN [k \in DOMAIN store \ {cache_key} |-> store[k]]
        ELSE store

\* the store after CacheManager.get_cached_content: the method only calls
\* self.cache.get, it neither deletes nor sets an entry
store_after_get(store, url, t) == store

\* mutant of cache_content: an entry already stored under the key is kept
cache_content_keep(store, url, content, t) ==
    LET cache_key == get_cache_key(url)
        cache_data == [content |-> content, timestamp |-> isoformat(t)]
    IN  store @@ (cache_key :> cache_data)

\* CacheManager.cache_content: the store after the write at time t
cache_content(store, url, content, t) ==
    LET cache_key == get_cache_key(url)
        cache_data == [content |-> content, timestamp |-> isoformat(t)]
    IN  (cache_key :> cache_data) @@ store

\* ---------------------------------------------------------- ClaudeAnalyzer
Lower(w) ==
    CASE w = "OCR" -> "ocr"
      [] w = "Document" -> "document"
      [] w = "API" -> "api"
      [] w = "Security" -> "security"
      [] OTHER -> w

lower(text) == [i \in 1..Len(text) |-> Lower(text[i])]

\* the keywords that are written inside a word of the texts without being
\* that word: str.count and "in" look for substrings, not for words
inside(word) ==
    CASE word = "sustainability" -> {"ai"}
      [] word = "blockchain" -> {"ai"}
      [] word = "cybersecurity" -> {"security"}
      [] word = "scanner" -> {"scan"}
      [] OTHER -> {}

\* occurrences of the one-word keyword k in one word
symbol_count(word, k) == IF word = k \/ k \in inside(word) THEN 1 ELSE 0

\* str.count: non-overlapping occurrences of kw in text, left to right
RECURSIVE str_count(_, _)
str_count(text, kw) ==
    IF Len(text) < Len(kw) THEN 0
    ELSE IF Len(kw) = 1
         THEN symbol_count(text[1], kw[1]) + str_count(Tail(text), kw)
    ELSE IF SubSeq(text, 1, Len(kw)) = kw
         THEN 1 + str_count(SubSeq(text, Len(kw) + 1, Len(text)), kw)
         ELSE str_count(Tail(text), kw)

keywords_mapping == <<
    [criterion |-> "numerisation",
     keywords |-> << <<"ocr">>, <<"document">>, <<"scan">>, <<"digitization">>,
                     <<"digitisation">>, <<"pdf">>, <<"paper">>, <<"archive">>,
                     <<"capture">>, <<"recognition">> >>],
    [criterion |-> "extraction",
     keywords |-> << <<"data", "extraction">>, <<"data", "mining">>, <<"analytics">>,
                     <<"intelligence">>, <<"etl">>, <<"data", "processing">>,
                     <<"information", "extraction">>, <<"nlp">>, <<"text", "mining">> >>],
    [criterion |-> "certification",
     keywords |-> << <<"certification">>, <<"trust">>, <<"blockchain">>, <<"security">>,
                     <<"authentication">>, <<"verification">>, <<"compliance">>,
                     <<"audit">>, <<"identity">> >>],
    [criterion |-> "mise_disposition",
     keywords |-> << <<"dashboard">>, <<"portal">>, <<"api">>, <<"collaboration">>,
                     <<"sharing">>, <<"access">>, <<"interface">>, <<"platform">>,
                     <<"workspace">> >>] >>

Criteria == {"numerisation", "extraction", "certification", "mise_disposition"}

tag_keywords == <<
    [tag |-> "Edge computing",
     keywords |-> << <<"edge">>, <<"fog">>, <<"distributed">>, <<"iot">>,
                     <<"real-time">>, <<"latency">> >>],
    [tag |-> "RSE",
     keywords |-> << <<"sustainability">>, <<"esg">>, <<"carbon">>, <<"environment">>,
                     <<"social">>, <<"governance">>, <<"ethics">>, <<"responsible">>,
                     <<"green">> >>],
    [tag |-> "Risque augmente",
     keywords |-> << <<"cybersecurity">>, <<"fraud">>, <<"monitoring">>, <<"risk">>,
                     <<"security">>, <<"compliance">>, <<"regulation">> >>],
    [tag |-> "Game Changer",
     keywords |-> << <<"disruption">>, <<"innovation">>, <<"breakthrough">>,
                     <<"revolutionary">>, <<"transformation">>, <<"ai">>, <<"quantum">> >>],
    [tag |-> "Prospective",
     keywords |-> << <<"future">>, <<"vision">>, <<"roadmap">>, <<"strategy">>,
                     <<"long-term">>, <<"emerging">>, <<"next-gen">> >>] >>

SelectSeqIdx(s, Keep(_)) ==
    LET RECURSIVE go(_)
        go(i) == IF i > Len(s) THEN <<>>
                 ELSE IF Keep(s[i]) THEN <<s[i]>> \o go(i + 1) ELSE go(i + 1)
    IN  go(1)

_assign_fallback_tags_twice(text) ==
    LET hit(entry) ==
            SumSeq([j \in 1..Len(entry.keywords) |-> str_count(text, entry.keywords[j])]) >= 2
        kept == SelectSeqIdx(tag_keywords, hit)
    IN  [i \in 1..Len(kept) |-> kept[i].tag]

\* ClaudeAnalyzer._assign_fallback_tags
_assign_fallback_tags(text) ==
    LET hit(entry) == \E j \in 1..Len(entry.keywords) : str_count(text, entry.keywords[j]) > 0
        kept == SelectSeqIdx(tag_keywords, hit)
    IN  [i \in 1..Len(kept) |-> kept[i].tag]

criterion_score_presence(text, keywords) ==
    SumSeq([j \in 1..Len(keywords) |-> IF str_count(text, keywords[j]) > 0 THEN 1 ELSE 0])

\* per-criterion loop of _fallback_analysis: raw count and matched keywords
criterion_score(text, keywords) ==
    SumSeq([j \in 1..Len(keywords) |-> str_count(text, keywords[j])])

criterion_keywords(text, keywords) ==
    LET found(kw) == str_count(text, kw) > 0
    IN  SelectSeqIdx(keywords, found)

normalise_unclamped(score) == score * 5

\* min(score * 2.5, 25), in half points
normalise(score) == Min(score * 5, 50)

RECURSIVE Flatten(_)
Flatten(ss) == IF ss = <<>> THEN <<>> ELSE Head(ss) \o Flatten(Tail(ss))

FallbackJustification == "Analyse par mots-cles (Claude indisponible)"

\* mutant of _fallback_analysis: the text of the previous call is still in the buffer
_fallback_analysis_stateful(content, description) ==
    LET carried == IF calls = None \/ calls.made = <<>> THEN <<>>
                   ELSE calls.made[Len(calls.made)].content
        combined_text == lower(carried \o content \o description)
        byName(c) == CHOOSE j \in 1..Len(keywords_mapping) : keywords_mapping[j].criterion = c
        scores == [c \in Criteria |->
                      normalise(criterion_score(combined_text, keywords_mapping[byName(c)].keywords))]
        keywords_found == Flatten([j \in 1..Len(keywords_mapping) |->
                      criterion_keywords(combined_text, keywords_mapping[j].keywords)])
    IN  [scores |-> scores,
         total_score |-> SumSeq([j \in 1..Len(keywords_mapping) |-> scores[keywords_mapping[j].criterion]]),
         tags |-> _assign_fallback_tags(combined_text),
         justification |-> FallbackJustification,
         keywords_found |-> Take(keywords_found, KeywordsFoundCap)]

\* ClaudeAnalyzer._fallback_analysis; texts are sequences of words that
\* single spaces separate, so f"{content} {description}" is their concatenation
_fallback_analysis(content, description) ==
    LET combined_text == lower(content \o description)
        byName(c) == CHOOSE j \in 1..Len(keywords_mapping) : keywords_mapping[j].criterion = c
        scores == [c \in Criteria |->
                      normalise(criterion_score(combined_text, keywords_mapping[byName(c)].keywords))]
        keywords_found == Flatten([j \in 1..Len(keywords_mapping) |->
                      criterion_keywords(combined_text, keywords_mapping[j].keywords)])
    IN  [scores |-> scores,
         total_score |-> SumSeq([j \in 1..Len(keywords_mapping) |-> scores[keywords_mapping[j].criterion]]),
         tags |-> _assign_fallback_tags(combined_text),
         justification |-> FallbackJustification,
         keywords_found |-> Take(keywords_found, KeywordsFoundCap)]

\* values of the JSON document the remote service answers with
Num(n) == [type |-> "number", value |-> n]
Str == [type |-> "str", value |-> 0]
is_number(v) == v.type = "number"

\* replies of the remote service: a failed call (transport error or
\* non-success status, which the client raises), text that is not JSON, or a
\* JSON document (scores in half points: 25 points = 50)
ReplyError == [kind |-> "error", analysis |-> EmptyDict]
ReplyNotJson == [kind |-> "text", analysis |-> EmptyDict]
ReplyGood ==
    [kind |-> "json",
     analysis |-> [scores |-> [numerisation |-> Num(40), extraction |-> Num(20),
                               certification |-> Num(0), mise_disposition |-> Num(8)],
                   total_score |-> 198,
                   tags |-> <<"RSE">>,
                   justification |-> "remote",
                   keywords_found |-> <<>>]]
RemoteReplies == {ReplyError, ReplyGood}

RECURSIVE SumValues(_)
SumValues(d) ==
    IF DOMAIN d = {} THEN 0
    ELSE LET k == CHOOSE x \in DOMAIN d : TRUE
         IN  d[k] + SumValues([x \in DOMAIN d \ {k} |-> d[x]])

\* validation loop of analyze_startup_relevance (half points: 25 points = 50)
validate_scores(scores) ==
    [k \in DOMAIN scores \cup Criteria |->
        IF k \in Criteria
        THEN IF k \notin DOMAIN scores THEN 0 ELSE Max(0, Min(50, scores[k].value))
        ELSE scores[k].value]

\* what makes the try block of analyze_startup_relevance raise: the call or
\* json.loads fails, analysis['scores'] is missing, min(25, v) meets a value
\* that is not a number, or sum() over the values does
remote_raises(reply) ==
    \/ reply.kind # "json"
    \/ "scores" \notin DOMAIN reply.analysis
    \/ \E k \in DOMAIN reply.analysis.scores : ~is_number(reply.analysis.scores[k])

issues_remote_call_always(self_enabled) == TRUE

\* analyze_startup_relevance returns before its try block when the analyzer
\* is not enabled; otherwise client.messages.create is called
issues_remote_call(self_enabled) == self_enabled

\* ClaudeAnalyzer.analyze_startup_relevance; reply is what the remote call
\* gives when it is made
analyze_startup_relevance(self_enabled, content, description, reply) ==
    IF ~self_enabled THEN _fallback_analysis(content, description)
    ELSE IF remote_raises(reply)
         THEN _fallback_analysis(content, description)
         ELSE LET scores == validate_scores(reply.analysis.scores)
              IN  [k \in DOMAIN reply.analysis \cup {"total_score"} |->
                     CASE k = "scores" -> scores
                       [] k = "total_score" -> SumValues(scores)
                       [] OTHER -> reply.analysis[k]]

\* ------------------------------------------------------- targets and pages
\* rows of the loaded CSV: HOST COMPANY NAME, WEBSITE, DESCRIPTION
TargetPool == {
    [name |-> "Acme",   website |-> <<>>,                            description |-> <<"Document", "OCR", "scan">>],
    [name |-> "Bare",   website |-> <<"a.com">>,                     description |-> <<>>],
    [name |-> "Full",   website |-> <<"https://", "a.com">>,         description |-> <<"API">>],
    [name |-> "Padded", website |-> <<"sp", "https://", "b.com", "sp">>, description |-> <<"blockchain">>] }

TargetLists == UNION {[1..n -> TargetPool] : n \in 0..MaxTargets}

\* what the web server of a cleaned URL serves with HTTP 200: the <title>
\* and the text left after the script/style/nav/footer/header elements are
\* removed and the whitespace is collapsed
PageOf(url) ==
    IF url = <<"https://", "a.com">>
    THEN [title |-> <<"A">>, text |-> <<"ocr", "dashboard", "ocr">>]
    ELSE [title |-> <<"B">>, text |-> <<"audit">>]

\* outcomes of session.get(url) and of reading the response
HttpStatuses == {200, 404}
NetOutcomes ==
    {[kind |-> "http", status |-> c] : c \in HttpStatuses}
        \cup {[kind |-> "timeout", status |-> 0], [kind |-> "exception", status |-> 0]}

\* the dict returned by the HTTP 200 branch of scrape_single_website
success_result(url, t) ==
    [content |-> Take(PageOf(url).text, ContentCap),
     title |-> PageOf(url).title,
     url |-> url,
     status |-> "success",
     scraped_at |-> isoformat(t)]

failure_result(url, error, status) ==
    [content |-> <<>>, title |-> <<>>, error |-> error, url |-> url, status |-> status]

\* the dict returned for one outcome of the GET inside the semaphore
fetch_result(url, o, t) ==
    CASE o.kind = "http" /\ o.status = 200 -> success_result(url, t)
      [] o.kind = "http" /\ o.status # 200 ->
             failure_result(url, <<"HTTP", o.status>>, "failed")
      [] o.kind = "timeout" -> failure_result(url, <<"Timeout">>, "timeout")
      [] OTHER -> failure_result(url, <<"ClientError">>, "failed")

\* {**cached_content, "status": "cached"}
cached_result(cached_content) ==
    [k \in DOMAIN cached_content \cup {"status"} |->
        IF k = "status" THEN "cached" ELSE cached_content[k]]

\* "Gestion des exceptions" of scrape_websites_batch, for one gathered item
process_result(item) ==
    IF item.kind = "raise"
    THEN [content |-> <<>>, title |-> <<>>, error |-> item.value.error, status |-> "exception"]
    ELSE item.value

\* ------------------------------------------------------------ state tuples
vars == <<targets, max_concurrent, enabled, cache, now, run, with_callback, phase,
          task, outcome, done_order, sem, waiters, gets, progress, website_results,
          scored_startups, lastSuccess, faults, written, got, scored, calls, reported,
          api_calls>>

configVars == <<targets, max_concurrent>>
batchVars == <<run, with_callback, phase, task, outcome, done_order, sem, waiters,
               gets, progress, website_results>>
apiVars == <<written, got, scored, calls, reported, api_calls>>

Idx == 1..Len(targets)

NoOutcome == [kind |-> "none", value |-> EmptyDict]

\* the state after construction, no scorer call pending
Constructed ==
    /\ targets \in TargetLists
    /\ max_concurrent = 0
    /\ enabled = FALSE
    /\ cache = EmptyDict
    /\ now = 0
    /\ run = 0
    /\ with_callback = FALSE
    /\ phase = "idle"
    /\ task = [i \in Idx |-> "idle"]
    /\ outcome = [i \in Idx |-> NoOutcome]
    /\ done_order = <<>>
    /\ sem = 0
    /\ waiters = <<>>
    /\ gets = [i \in Idx |-> 0]
    /\ progress = <<>>
    /\ website_results = <<>>
    /\ scored_startups = <<>>
    /\ lastSuccess = EmptyDict
    /\ faults = 0
    /\ written = EmptyDict
    /\ got = None
    /\ api_calls = 0

Init ==
    /\ Constructed
    /\ scored = None
    /\ calls = None
    /\ reported = None

\* ----------------------------------------------------------------- actions
AllStarted == \A i \in Idx : task[i] # "pending"

\* the as_completed loop has taken every finished coroutine: its wake-up is a
\* ready callback, which the event loop runs before it polls the network again
Drained == with_callback => Len(progress) = Len(done_order)
AllFinished == \A i \in Idx : task[i] = "done"
InFlight == {i \in Idx : task[i] = "inflight"}

\* mutant of Semaphore: a limit of 0 is raised to 1
Semaphore_at_least_one(value) == Max(value, 1)

\* asyncio.Semaphore(self.max_concurrent): the initial counter is the value
\* given, and 0 is a legal value
Semaphore(value) == value

\* the concurrency limits a run can be given: int(concurrent) of the prompt
\* accepts 0
Limits == 0..MaxConcurrent

\* AsyncWebScraper(max_concurrent = limit) and the start of
\* scrape_websites_batch
NewBatch(cb, limit) ==
    /\ phase = "idle"
    /\ run < MaxRuns
    /\ run' = run + 1
    /\ max_concurrent' = limit
    /\ with_callback' = cb
    /\ phase' = "scraping"
    /\ task' = [i \in Idx |-> "pending"]
    /\ outcome' = [i \in Idx |-> NoOutcome]
    /\ done_order' = <<>>
    /\ sem' = Semaphore(limit)
    /\ waiters' = <<>>
    /\ gets' = [i \in Idx |-> 0]
    /\ progress' = <<>>
    /\ website_results' = <<>>

\* a program run: VivaTechAnalyzerV2 is constructed over the persistent cache
\* (scored_startups = [], ClaudeAnalyzer enabled iff an API key is given) and
\* analyze_startups_async runs up to its call of scrape_websites_batch, which
\* it always makes with its progress_callback
AnalyzeStart(api_key, limit) ==
    /\ NewBatch(TRUE, limit)
    /\ enabled' = api_key
    /\ scored_startups' = <<>>
    /\ UNCHANGED <<targets, cache, now, lastSuccess, faults, apiVars>>

\* a program run that calls scrape_websites_batch(urls) on an AsyncWebScraper
\* without a progress callback
BatchStart(limit) ==
    /\ NewBatch(FALSE, limit)
    /\ enabled' = FALSE
    /\ scored_startups' = <<>>
    /\ UNCHANGED <<targets, cache, now, lastSuccess, faults, apiVars>>

\* mutant of Finish: a coroutine whose GET timed out starts over
Finish_retry(i, result) ==
    /\ task' = [task EXCEPT ![i] =
                   IF result.kind = "return" /\ result.value.status = "timeout"
                   THEN "pending" ELSE "done"]
    /\ outcome' = [outcome EXCEPT ![i] = result]
    /\ done_order' = IF with_callback THEN Append(done_order, i) ELSE done_order

\* coroutine i finishes; as_completed queues it in completion order
Finish(i, result) ==
    /\ task' = [task EXCEPT ![i] = "done"]
    /\ outcome' = [outcome EXCEPT ![i] = result]
    /\ done_order' = IF with_callback THEN Append(done_order, i) ELSE done_order

\* mutant of SemaphoreFree: the counter is not looked at
SemaphoreFree_unchecked == waiters = <<>>

\* asyncio.Semaphore.acquire as called by a coroutine that has not waited yet
SemaphoreFree == sem > 0 /\ waiters = <<>>

\* scrape_single_website from its first line to its first suspension: the
\* missing-URL return, the cache lookup, the URL clean-up and the attempt to
\* enter the semaphore (session.get is issued as soon as it is entered)
Start(i) ==
    /\ phase = "scraping"
    /\ task[i] = "pending"
    /\ LET url == targets[i].website
           lookup == get_cached_content(cache, url, now)
       IN  IF url_missing(url)
           THEN /\ Finish(i, Returned(failure_result(url, <<"URL manquante">>, "failed")))
                /\ UNCHANGED <<sem, waiters, gets>>
           ELSE IF lookup.kind = "raise"
           THEN /\ Finish(i, lookup)
                /\ UNCHANGED <<sem, waiters, gets>>
           ELSE IF Truthy(lookup.value)
           THEN /\ Finish(i, Returned(cached_result(lookup.value)))
                /\ UNCHANGED <<sem, waiters, gets>>
           ELSE IF SemaphoreFree
           THEN /\ sem' = sem - 1
                /\ task' = [task EXCEPT ![i] = "inflight"]
                /\ gets' = [gets EXCEPT ![i] = @ + 1]
                /\ UNCHANGED <<outcome, done_order, waiters>>
           ELSE /\ waiters' = Append(waiters, i)
                /\ task' = [task EXCEPT ![i] = "waiting"]
                /\ UNCHANGED <<outcome, done_order, sem, gets>>
    /\ cache' = IF url_missing(targets[i].website)
                THEN cache
                ELSE store_after_get(cache, targets[i].website, now)
    /\ UNCHANGED <<configVars, enabled, now, run, with_callback, phase, progress,
                   website_results, scored_startups, lastSuccess, faults, apiVars>>

\* a coroutine blocked in "async with semaphore" is woken (FIFO) and issues
\* its session.get
Acquire(i) ==
    /\ phase = "scraping"
    /\ task[i] = "waiting"
    /\ waiters # <<>> /\ Head(waiters) = i
    /\ sem > 0
    /\ Drained
    /\ sem' = sem - 1
    /\ waiters' = Tail(waiters)
    /\ task' = [task EXCEPT ![i] = "inflight"]
    /\ gets' = [gets EXCEPT ![i] = @ + 1]
    /\ UNCHANGED <<configVars, enabled, cache, now, run, with_callback, phase, outcome, done_order,
                   progress, website_results, scored_startups, lastSuccess, faults, apiVars>>

\* Semaphore.release on leaving "async with semaphore"
release(value) == value + 1

\* mutant of should_cache: every result dict is cached
should_cache_any(result) == "status" \in DOMAIN result

\* cache_content is called in the "response.status == 200" branch only
should_cache(result) == result.status = "success"

\* the rest of scrape_single_website: the GET ends with outcome o, the result
\* dict is built, an HTTP 200 result is cached, the semaphore is released.
\* Every coroutine runs to its first suspension before any GET completes.
Complete(i, o) ==
    /\ phase = "scraping"
    /\ AllStarted
    /\ Drained
    /\ task[i] = "inflight"
    /\ LET url == clean_url(targets[i].website)
           result == fetch_result(url, o, now)
       IN  /\ Finish(i, Returned(result))
           /\ IF should_cache(result)
              THEN /\ cache' = cache_content(cache, url, result, now)
                   /\ lastSuccess' = (targets[i].website :> now) @@ lastSuccess
              ELSE UNCHANGED <<cache, lastSuccess>>
    /\ sem' = release(sem)
    /\ UNCHANGED <<configVars, enabled, now, run, with_callback, phase, waiters, gets, progress,
                   website_results, scored_startups, faults, apiVars>>

\* one iteration of "for coro in tqdm.as_completed(tasks)": the next finished
\* coroutine, in completion order, is awaited; its exception propagates out
\* of scrape_websites_batch and analyze_startups_async, its result is
\* appended and reported to progress_callback
Consume ==
    /\ phase = "scraping"
    /\ with_callback
    /\ AllStarted
    /\ Len(progress) < Len(done_order)
    /\ LET item == outcome[done_order[Len(progress) + 1]]
       IN  IF item.kind = "raise"
           THEN /\ phase' = "raised"
                /\ UNCHANGED progress
           ELSE /\ progress' = Append(progress, <<Len(progress) + 1, Len(targets)>>)
                /\ UNCHANGED phase
    /\ UNCHANGED <<configVars, enabled, cache, now, run, with_callback, task, outcome, done_order,
                   sem, waiters, gets, website_results, scored_startups, lastSuccess,
                   faults, apiVars>>

\* results as scrape_websites_batch collects them: completion order from
\* as_completed, input order from asyncio.gather
collected ==
    IF with_callback
    THEN [j \in 1..Len(done_order) |-> outcome[done_order[j]]]
    ELSE [i \in Idx |-> outcome[i]]

\* scrape_websites_batch returns processed_results; analyze_startups_async
\* then resets scored_startups before its scoring loop
BatchReturn ==
    /\ phase = "scraping"
    /\ AllFinished
    /\ with_callback => Len(progress) = Len(targets)
    /\ website_results' = [j \in 1..Len(collected) |-> process_result(collected[j])]
    /\ IF with_callback
       THEN /\ scored_startups' = <<>>
            /\ phase' = "scoring"
       ELSE /\ phase' = "done"
            /\ UNCHANGED scored_startups
    /\ UNCHANGED <<configVars, enabled, cache, now, run, with_callback, task, outcome, done_order,
                   sem, waiters, gets, progress, lastSuccess, faults, apiVars>>

\* the record built by one iteration of the scoring loop
startup_record(row, website_data, analysis) ==
    [name |-> row.name,
     website |-> row.website,
     description |-> row.description,
     website_content |-> Take(Get(website_data, "content", <<>>), WebsiteContentCap),
     website_title |-> Get(website_data, "title", <<>>),
     scraping_status |-> Get(website_data, "status", "unknown"),
     total_score |-> analysis.total_score,
     claude_analysis |-> analysis]

\* the scoring loop "for idx, (row_idx, row) in enumerate(df_to_analyze.iterrows())"
\* of analyze_startups_async; it never suspends. replies[idx] is what the
\* remote service answers for row idx when it is called
ScoreAll(replies) ==
    /\ phase = "scoring"
    /\ LET website_data(idx) ==
               IF idx <= Len(website_results) THEN website_results[idx] ELSE EmptyDict
           analysis(idx) ==
               analyze_startup_relevance(enabled, Get(website_data(idx), "content", <<>>),
                                         targets[idx].description, replies[idx])
       IN  scored_startups' =
               [idx \in Idx |-> startup_record(targets[idx], website_data(idx), analysis(idx))]
    /\ phase' = "done"
    /\ UNCHANGED <<configVars, enabled, cache, now, run, with_callback, task, outcome, done_order,
                   sem, waiters, gets, progress, website_results, lastSuccess, faults, apiVars>>

\* the program ends, normally or with the exception that left
\* analyze_startups_async: only the cache directory outlives it
Exit ==
    /\ phase \in {"done", "raised"}
    /\ phase' = "idle"
    /\ with_callback' = FALSE
    /\ enabled' = FALSE
    /\ task' = [i \in Idx |-> "idle"]
    /\ outcome' = [i \in Idx |-> NoOutcome]
    /\ done_order' = <<>>
    /\ sem' = 0
    /\ waiters' = <<>>
    /\ gets' = [i \in Idx |-> 0]
    /\ progress' = <<>>
    /\ website_results' = <<>>
    /\ scored_startups' = <<>>
    /\ reported' = None
    /\ max_concurrent' = 0
    /\ UNCHANGED <<targets, cache, now, run, lastSuccess, faults, written, got, scored, calls,
                   api_calls>>

\* sorted(records, key=total_score, reverse=True): stable, highest first
RECURSIVE sorted_by_total_score(_)
sorted_by_total_score(records) ==
    IF records = <<>> THEN <<>>
    ELSE LET last == records[Len(records)]
             rest == sorted_by_total_score(SubSeq(records, 1, Len(records) - 1))
             ahead == {j \in 1..Len(rest) : rest[j].total_score >= last.total_score}
             n == Cardinality(ahead)
         IN  SubSeq(rest, 1, n) \o <<last>> \o SubSeq(rest, n + 1, Len(rest))

list_after_sort_in_place(records) == sorted_by_total_score(records)

\* sorted() builds a new list: the list it is given stays as it is
list_after_sorted(records) == records

scraping_stats_failed_only(records) ==
    LET count(statuses) == Cardinality({j \in 1..Len(records) :
                                           records[j].scraping_status \in statuses})
    IN  [total_analyzed |-> Len(records),
         successful_scrapes |-> count({"success"}),
         cached_results |-> count({"cached"}),
         failed_scrapes |-> count({"failed"})]

\* scraping_stats of export_results_v2
scraping_stats(records) ==
    LET count(statuses) == Cardinality({j \in 1..Len(records) :
                                           records[j].scraping_status \in statuses})
    IN  [total_analyzed |-> Len(records),
         successful_scrapes |-> count({"success"}),
         cached_results |-> count({"cached"}),
         failed_scrapes |-> count({"failed", "timeout", "exception"})]

\* the reporting functions and the length of the list each puts out:
\* print_top_recommendations(top_n), "top_startups" of export_results_v2,
\* top_20 of generate_dashboard_v2
TopNDefault == 10
ExportCap == 100
DashboardCap == 20
ReportCalls ==
    {[function |-> "print_top_recommendations", cap |-> n] : n \in {1, TopNDefault}}
        \cup {[function |-> "export_results_v2", cap |-> ExportCap],
               [function |-> "generate_dashboard_v2", cap |-> DashboardCap]}

\* one of the reporting functions is called after the analysis; each returns
\* at once when scored_startups is empty
Report(call) ==
    /\ phase = "done"
    /\ with_callback
    /\ scored_startups # <<>>
    /\ LET sorted_startups == sorted_by_total_score(scored_startups)
       IN  reported' = [function |-> call.function,
                        cap |-> call.cap,
                        before |-> scored_startups,
                        list |-> Take(sorted_startups, call.cap),
                        stats |-> IF call.function = "export_results_v2"
                                  THEN scraping_stats(sorted_startups) ELSE EmptyDict]
    /\ scored_startups' = list_after_sorted(scored_startups)
    /\ UNCHANGED <<configVars, enabled, cache, now, batchVars, lastSuccess, faults,
                   written, got, scored, calls, api_calls>>

\* the clock advances between two program runs, by one day less than the
\* cache duration or by the whole cache duration (a run itself is short on
\* the scale of days)
TickSteps == {cache_duration_days - 1, cache_duration_days}

Tick(d) ==
    /\ phase = "idle"
    /\ now + d <= MaxTime
    /\ now' = now + d
    /\ UNCHANGED <<configVars, enabled, cache, batchVars, scored_startups, lastSuccess, faults, apiVars>>

\* the backing store is damaged between two program runs: an entry loses
\* its timestamp, or its timestamp no longer parses
BadTimestamp == [fmt |-> "garbage", t |-> 0]

CorruptEntry(k, kind) ==
    /\ faults < MaxFaults
    /\ phase = "idle"
    /\ k \in DOMAIN cache
    /\ "timestamp" \in DOMAIN cache[k] /\ iso_parses(cache[k].timestamp)
    /\ cache' = [cache EXCEPT ![k] =
                    IF kind = "no_timestamp"
                    THEN [content |-> cache[k].content]
                    ELSE [content |-> cache[k].content, timestamp |-> BadTimestamp]]
    /\ faults' = faults + 1
    /\ UNCHANGED <<configVars, enabled, now, batchVars, scored_startups, lastSuccess, apiVars>>

Next ==
    \/ \E api_key \in BOOLEAN, limit \in Limits : AnalyzeStart(api_key, limit)
    \/ \E limit \in Limits : BatchStart(limit)
    \/ \E i \in Idx : Start(i)
    \/ \E i \in Idx : Acquire(i)
    \/ \E i \in Idx, o \in NetOutcomes : Complete(i, o)
    \/ Consume
    \/ BatchReturn
    \/ \E replies \in [Idx -> IF enabled THEN RemoteReplies ELSE {ReplyError}] : ScoreAll(replies)
    \/ \E call \in ReportCalls : Report(call)
    \/ Exit
    \/ \E d \in TickSteps : Tick(d)
    \/ \E k \in DOMAIN cache, kind \in {"no_timestamp", "bad_timestamp"} : CorruptEntry(k, kind)

Spec == Init /\ [][Next]_vars

\* ------------------------------------------- CacheManager used on its own
\* URLs and payloads given to the CacheManager API directly, as its tests do
ApiUrls == {<<"https://", "a.com">>, <<"a.com">>}
Payloads == {[title |-> <<"Test Page">>, content |-> <<"Some data">>],
             [data |-> <<"fresh_data">>],
             EmptyDict}

\* between two calls of the API the clock advances by a day as well
ApiTickSteps == {1} \cup TickSteps

\* cache_manager.cache_content(url, content)
ApiPut(url, content) ==
    /\ api_calls < MaxApiCalls
    /\ api_calls' = api_calls + 1
    /\ cache' = cache_content(cache, url, content, now)
    /\ written' = (url :> [payload |-> content, at |-> now, reads |-> 0,
                           prev |-> IF url \in DOMAIN written
                                    THEN [payload |-> written[url].payload,
                                          at |-> written[url].at]
                                    ELSE None]) @@ written
    /\ UNCHANGED <<configVars, enabled, now, batchVars, scored_startups, lastSuccess, faults, got, scored, calls, reported>>

\* cache_manager.get_cached_content(url); got records the call, what it
\* returned and what had last been stored for the url; the reads of an entry
\* since it was written are counted up to MaxReads
ApiGet(url) ==
    /\ api_calls < MaxApiCalls
    /\ api_calls' = api_calls + 1
    /\ written' = IF url \in DOMAIN written
                  THEN [written EXCEPT ![url].reads = Min(@ + 1, MaxReads)]
                  ELSE written
    /\ got' = [url |-> url, at |-> now,
               result |-> get_cached_content(cache, url, now),
               stored |-> Get(written', url, None)]
    /\ cache' = store_after_get(cache, url, now)
    /\ UNCHANGED <<configVars, enabled, now, batchVars, scored_startups, lastSuccess,
                   faults, scored, calls, reported>>

CacheInit ==
    /\ Init
    /\ targets = <<>>

CacheNext ==
    \/ \E url \in ApiUrls, content \in Payloads : ApiPut(url, content)
    \/ \E url \in ApiUrls : ApiGet(url)
    \/ \E d \in ApiTickSteps : Tick(d)

SpecCache == CacheInit /\ [][CacheNext]_vars

\* ------------------------------------------ ClaudeAnalyzer used on its own
\* texts given to the scorer directly, as its tests do: short texts over a
\* few words, and one word repeated ("ocr " * 50 in the tests)
ScoreWords == {"OCR", "data", "mining", "Security", "flowers", "sustainability", "scanner"}
Repeat(w, n) == [i \in 1..n |-> w]

\* keyword * n, the words of the keyword separated by single spaces
RECURSIVE RepeatKeyword(_, _)
RepeatKeyword(kw, n) == IF n = 0 THEN <<>> ELSE kw \o RepeatKeyword(kw, n - 1)

AxisKeywords ==
    UNION {{keywords_mapping[j].keywords[k] : k \in 1..Len(keywords_mapping[j].keywords)} :
              j \in 1..Len(keywords_mapping)}

\* a text with eleven distinct keywords: "nlp" and "etl" (in that order),
\* then every numerisation keyword but the first
ManyKeywordsText == <<"nlp", "etl">> \o Flatten(Tail(keywords_mapping[1].keywords))

ScoreTexts ==
    UNION {[1..n -> ScoreWords] : n \in 0..MaxWords}
        \cup {Repeat(w, n) : w \in {"OCR", "flowers"}, n \in {MaxRepeat - 1, MaxRepeat}}
        \cup {RepeatKeyword(kw, n) : kw \in AxisKeywords, n \in {MaxRepeat - 1, MaxRepeat}}
        \cup {ManyKeywordsText}
ScoreDescriptions ==
    {<<>>, <<"Document", "OCR", "scan">>} \cup {<<w>> : w \in ScoreWords}

\* JSON documents of the remote service that depart from the requested one
ReplyNoScores ==
    [kind |-> "json",
     analysis |-> [tags |-> <<"RSE">>, justification |-> "remote"]]
ReplyNonNumeric ==
    [kind |-> "json",
     analysis |-> [scores |-> [numerisation |-> Num(40), extraction |-> Str,
                               certification |-> Num(0), mise_disposition |-> Num(8)],
                   tags |-> <<"RSE">>, justification |-> "remote"]]
ReplyNoTags ==
    [kind |-> "json",
     analysis |-> [scores |-> [numerisation |-> Num(40), extraction |-> Num(20),
                               certification |-> Num(0), mise_disposition |-> Num(8)],
                   justification |-> "remote"]]
ReplyNoJustification ==
    [kind |-> "json",
     analysis |-> [scores |-> [numerisation |-> Num(40), extraction |-> Num(20),
                               certification |-> Num(0), mise_disposition |-> Num(8)],
                   tags |-> <<"RSE">>]]
ReplyOutOfRange ==
    [kind |-> "json",
     analysis |-> [scores |-> [numerisation |-> Num(90), extraction |-> Num(0 - 6),
                               mise_disposition |-> Num(50)],
                   total_score |-> 400,
                   tags |-> <<>>, justification |-> "remote"]]
ReplyExtraKey ==
    [kind |-> "json",
     analysis |-> [scores |-> [numerisation |-> Num(40), extraction |-> Num(20),
                               certification |-> Num(0), mise_disposition |-> Num(8),
                               bonus |-> Num(2000)],
                   tags |-> <<>>, justification |-> "remote"]]
ReplyExtraNonNumeric ==
    [kind |-> "json",
     analysis |-> [scores |-> [numerisation |-> Num(40), extraction |-> Num(20),
                               certification |-> Num(0), mise_disposition |-> Num(8),
                               comment |-> Str],
                   tags |-> <<>>, justification |-> "remote"]]
ReplyManyKeywords ==
    [kind |-> "json",
     analysis |-> [scores |-> [numerisation |-> Num(40), extraction |-> Num(20),
                               certification |-> Num(0), mise_disposition |-> Num(8)],
                   tags |-> <<>>, justification |-> "remote",
                   keywords_found |-> [i \in 1..(KeywordsFoundCap + 1) |-> <<"ocr", i>>]]]
ScoreReplies ==
    {ReplyError, ReplyNotJson, ReplyGood, ReplyNoScores, ReplyNonNumeric, ReplyNoTags,
     ReplyNoJustification, ReplyOutOfRange, ReplyExtraKey, ReplyExtraNonNumeric,
     ReplyManyKeywords}

\* the calls made: without an API key the remote call is never made
ScoreCalls ==
    [enabled : {FALSE}, content : ScoreTexts, description : ScoreDescriptions,
     reply : {ReplyError}, returned : {FALSE}, result : {EmptyDict}]
        \cup [enabled : {TRUE}, content : ScoreTexts, description : ScoreDescriptions,
               reply : ScoreReplies, returned : {FALSE}, result : {EmptyDict}]

\* ClaudeAnalyzer(api_key).analyze_startup_relevance(content, description, _)
\* returns
Analyze ==
    /\ scored # None
    /\ ~scored.returned
    /\ scored' = [scored EXCEPT
                     !.returned = TRUE,
                     !.result = analyze_startup_relevance(scored.enabled, scored.content,
                                                          scored.description, scored.reply)]
    /\ UNCHANGED <<configVars, enabled, cache, now, batchVars, scored_startups, lastSuccess,
                   faults, written, got, calls, reported, api_calls>>

ScoreInit ==
    /\ Constructed
    /\ targets = <<>>
    /\ scored \in ScoreCalls
    /\ calls = None
    /\ reported = None

ScoreNext == Analyze

SpecScore == ScoreInit /\ [][ScoreNext]_vars

\* ------------------------------ one ClaudeAnalyzer scoring several startups
CallTexts == {<<>>, <<"OCR">>, <<"Security", "data">>}
CallDescriptions == {<<>>, <<"mining">>}

\* ClaudeAnalyzer.__init__(api_key)
ClaudeAnalyzer(api_key) ==
    /\ calls = None
    /\ enabled' = api_key
    /\ calls' = [made |-> <<>>]
    /\ UNCHANGED <<configVars, cache, now, batchVars, scored_startups, lastSuccess, faults,
                   written, got, scored, reported, api_calls>>

\* one more analyze_startup_relevance(content, description, _) on the analyzer
ScoreCall(content, description, reply) ==
    /\ calls # None
    /\ Len(calls.made) < MaxCalls
    /\ calls' = [made |-> Append(calls.made,
                       [content |-> content, description |-> description,
                        remote |-> issues_remote_call(enabled),
                        result |-> analyze_startup_relevance(enabled, content,
                                                             description, reply)])]
    /\ UNCHANGED <<configVars, enabled, cache, now, batchVars, scored_startups, lastSuccess,
                   faults, written, got, scored, reported, api_calls>>

CallsInit ==
    /\ Init
    /\ targets = <<>>

CallsNext ==
    \/ \E api_key \in BOOLEAN : ClaudeAnalyzer(api_key)
    \/ \E content \in CallTexts, description \in CallDescriptions, reply \in RemoteReplies :
          ScoreCall(content, description, reply)

SpecCalls == CallsInit /\ [][CallsNext]_vars

\* ------------------------------------------------------------------ claims
Returned_batch == phase \in {"scoring", "done"}

\* what fetching input URL i gave, as scrape_websites_batch reports it
OwnResult(i) == process_result(outcome[i])

\* C1: once scrape_websites_batch has returned, its list has one element per
\* input URL and element i is the outcome of fetching input URL i, whatever
\* the completion order, with or without a progress callback.
C1_IndexAligned ==
    Returned_batch =>
        /\ Len(website_results) = Len(targets)
        /\ \A i \in Idx : website_results[i] = OwnResult(i)

\* C2: after analyze_startups_async, record i carries the title, content and
\* scraping status fetched from target i's own URL, and its score is computed
\* from that content and target i's description.
C2_RecordPairsOwnOutcome ==
    (phase = "done" /\ with_callback) =>
        \A i \in Idx :
            /\ i <= Len(scored_startups)
            /\ scored_startups[i].name = targets[i].name
            /\ scored_startups[i].website_title = Get(OwnResult(i), "title", <<>>)
            /\ scored_startups[i].website_content =
                   Take(Get(OwnResult(i), "content", <<>>), WebsiteContentCap)
            /\ scored_startups[i].scraping_status = OwnResult(i).status
            /\ \E reply \in RemoteReplies :
                   scored_startups[i].claude_analysis =
                       analyze_startup_relevance(enabled, Get(OwnResult(i), "content", <<>>),
                                                 targets[i].description, reply)

\* a program run of the orchestrator has ended, normally or with an exception
RunEnded == with_callback /\ phase \in {"done", "raised"}

\* C3: whatever the per-target fetch and scoring outcomes, a run ends with
\* exactly one record per input target.
C3_OneRecordPerTarget ==
    RunEnded =>
        /\ Len(scored_startups) = Len(targets)
        /\ \A i \in Idx : scored_startups[i].name = targets[i].name

StoredFor(w, t) == success_result(clean_url(w), t)

\* coroutine i takes its first step (cache lookup included) in this step
Starts(i) == task[i] = "pending" /\ task'[i] # "pending"

\* C5: a target whose URL was fetched successfully less than the cache
\* duration ago (the store not having been damaged since) is answered from
\* the cache: status cached, the stored title and text, no network call.
C5_CacheShortCircuit ==
    [][\A i \in Idx :
          LET w == targets[i].website
          IN  (/\ Starts(i)
               /\ faults = 0
               /\ w \in DOMAIN lastSuccess
               /\ now - lastSuccess[w] < cache_duration_days)
              => /\ task'[i] = "done"
                 /\ gets'[i] = 0
                 /\ outcome'[i].kind = "return"
                 /\ outcome'[i].value.status = "cached"
                 /\ outcome'[i].value.title = StoredFor(w, lastSuccess[w]).title
                 /\ outcome'[i].value.content = StoredFor(w, lastSuccess[w]).content]_vars

\* C6: the cache lookup and the cache write of one target use the same key:
\* after a successful fetch of target i the store holds an entry under the
\* key that the lookup of target i computes.
C6_LookupKeyIsWriteKey ==
    \A i \in Idx :
        (task[i] = "done" /\ outcome[i].kind = "return" /\ outcome[i].value.status = "success")
            => /\ get_cache_key(targets[i].website) = get_cache_key(clean_url(targets[i].website))
               /\ get_cache_key(targets[i].website) \in DOMAIN cache

\* C7: cache_content(url, payload) followed by get_cached_content(url) less
\* than the cache duration later returns the payload unchanged, whatever was
\* written under other URLs in between.
C7_PutGetRoundTrip ==
    (got # None /\ got.stored # None /\ got.at - got.stored.at < cache_duration_days)
        => got.result = Returned(got.stored.payload)

\* C7 witness: a get six days after the put, another URL written in between
C7_Witness ==
    /\ got # None /\ got.stored # None
    /\ got.at - got.stored.at = cache_duration_days - 1
    /\ got.result = Returned(got.stored.payload)
    /\ \E u \in DOMAIN written : u # got.url /\ written[u].at > got.stored.at

\* C8: get_cached_content returns a payload only for a stored entry younger
\* than the cache duration (strictly), and returns None for a URL never
\* stored and for an entry whose age is the cache duration or more.
C8_NeverExpiredOrUnknown ==
    got # None =>
        /\ got.result.kind = "return"
        /\ got.result.value # None =>
               /\ got.stored # None
               /\ got.at - got.stored.at < cache_duration_days
               /\ got.result.value = got.stored.payload
        /\ got.stored = None => got.result.value = None
        /\ (got.stored # None /\ got.at - got.stored.at >= cache_duration_days)
               => got.result.value = None

\* C8 witness: a get exactly one cache duration after the put returns None
C8_Witness ==
    /\ got # None /\ got.stored # None
    /\ got.at - got.stored.at = cache_duration_days
    /\ got.result = Returned(None)

\* coroutine i finishes in this step with a failure
FailsNow(i) ==
    /\ task[i] # "done" /\ task'[i] = "done"
    /\ \/ outcome'[i].kind = "raise"
       \/ outcome'[i].value.status \notin {"success", "cached"}

\* C9: a fetch that ends in a failure leaves the store as it was, so every
\* lookup gives what it gave before; the store is written only by a fetch
\* that got HTTP 200, and what it holds are HTTP 200 results.
C9_FailuresNeverCached ==
    [][/\ \A i \in Idx : FailsNow(i) =>
              /\ cache' = cache
              /\ \A j \in Idx : get_cached_content(cache', targets[j].website, now')
                                   = get_cached_content(cache, targets[j].website, now)
       /\ (cache' # cache /\ phase = "scraping") =>
              \E i \in Idx :
                  /\ task[i] = "inflight" /\ task'[i] = "done"
                  /\ outcome'[i] = Returned(success_result(clean_url(targets[i].website), now))
                  /\ cache' = cache_content(cache, clean_url(targets[i].website),
                                            outcome'[i].value, now)
       /\ \A k \in DOMAIN cache' : cache'[k].content.status = "success"]_vars

\* C9 witness: every kind of failure has been seen in one run after which the
\* store is still empty
C9_Witness ==
    /\ phase = "done"
    /\ cache = EmptyDict
    /\ \E i, j \in Idx :
          /\ outcome[i].kind = "return" /\ outcome[i].value.status = "timeout"
          /\ outcome[j].kind = "return" /\ outcome[j].value.status = "failed"
          /\ gets[j] = 1

\* C10: a corrupt cache entry makes the lookup a miss: no coroutine ends with
\* an exception, and no batch is aborted by one.
C10_CorruptEntryIsMiss ==
    /\ \A i \in Idx : outcome[i].kind # "raise"
    /\ phase # "raised"

\* what the claims call a failed remote call: the call raised (transport
\* error or non-success status), the reply is not JSON, or the JSON lacks the
\* scores map, holds a score that is not a number, or lacks tags or
\* justification
reply_unusable(reply) ==
    \/ reply.kind # "json"
    \/ "scores" \notin DOMAIN reply.analysis
    \/ \E k \in DOMAIN reply.analysis.scores : reply.analysis.scores[k].type # "number"
    \/ "tags" \notin DOMAIN reply.analysis
    \/ "justification" \notin DOMAIN reply.analysis

\* C11: with the remote scorer enabled, a remote call that fails in any way
\* (call error, reply that is not JSON, missing scores map, non-numeric
\* score, missing tags or justification) makes analyze_startup_relevance
\* return exactly the keyword result for the same text and description.
C11_RemoteFailureFallsBack ==
    (scored # None /\ scored.returned /\ scored.enabled /\ reply_unusable(scored.reply))
        => scored.result = _fallback_analysis(scored.content, scored.description)

\* C12: every score of a returned analysis lies in [0, 25] (0..50 half
\* points), on the keyword path and on the remote path, whatever values and
\* keys the reply's scores map carries.
C12_ScoresInRange ==
    (scored # None /\ scored.returned) =>
        \A k \in DOMAIN scored.result.scores :
            0 <= scored.result.scores[k] /\ scored.result.scores[k] <= 50

\* C13: total_score is the sum of the four axis scores, hence within
\* [0, 100] (0..200 half points); the total of the reply is not used.
C13_TotalIsSumOfAxes ==
    (scored # None /\ scored.returned) =>
        /\ scored.result.total_score =
               scored.result.scores["numerisation"] + scored.result.scores["extraction"]
                   + scored.result.scores["certification"]
                   + scored.result.scores["mise_disposition"]
        /\ 0 <= scored.result.total_score
        /\ scored.result.total_score <= 200

\* number of places of text where kw occurs, as a word or inside one
Occurrences(text, kw) ==
    Cardinality({p \in 1..(Len(text) - Len(kw) + 1) :
                    IF Len(kw) = 1
                    THEN text[p] = kw[1] \/ kw[1] \in inside(text[p])
                    ELSE SubSeq(text, p, p + Len(kw) - 1) = kw})

\* c of an axis: sum over its keyword list of the occurrences in the
\* lower-cased text followed by the description
AxisCount(j, content, description) ==
    SumSeq([k \in 1..Len(keywords_mapping[j].keywords) |->
               Occurrences(lower(content \o description), keywords_mapping[j].keywords[k])])

\* C20: _fallback_analysis gives each of the four axes min(2.5 * c, 25), c
\* being the sum over the axis's keywords of their case-insensitive
\* occurrence counts in text and description; no score is negative or above
\* 25 (scores in half points: 2.5 = 5, 25 = 50).
C20_FallbackAxisScore ==
    (scored # None /\ scored.returned /\ ~scored.enabled) =>
        \A j \in 1..Len(keywords_mapping) :
            LET c == AxisCount(j, scored.content, scored.description)
                score == scored.result.scores[keywords_mapping[j].criterion]
            IN  /\ score = Min(5 * c, 50)
                /\ 0 <= score
                /\ score <= 50

\* eleven "OCR" and a description that adds three numerisation keywords and
\* nothing else: numerisation is capped at 25, the other axes are exact
C20_Witness ==
    /\ scored # None /\ scored.returned /\ ~scored.enabled
    /\ scored.content = Repeat("OCR", MaxRepeat)
    /\ scored.description = <<"Document", "OCR", "scan">>
    /\ AxisCount(1, scored.content, scored.description) = MaxRepeat + 3
    /\ scored.result.scores["numerisation"] = 50
    /\ scored.result.scores["extraction"] = 0

\* a keyword of two words that starts in the text and ends in the description
C20_WitnessAcrossTexts ==
    /\ scored # None /\ scored.returned /\ ~scored.enabled
    /\ scored.content = <<"flowers", "data">>
    /\ scored.description = <<"mining">>
    /\ scored.result.scores["extraction"] = 5

\* C14: with a limit of at least one and GETs that all end, a batch that has
\* started is carried through to its return: no error of one target, raised
\* inside or outside the network call, abandons it, and a coroutine that
\* leaves the network call gives its semaphore slot back.
C14_BatchNeverAbandoned ==
    [][/\ phase = "scraping" => phase' \in {"scraping", "scoring", "done"}
       /\ \A i \in Idx : (task[i] = "inflight" /\ task'[i] = "done") => sem' = sem + 1]_vars

\* what scrape_websites_batch returns without a progress callback for the
\* outcomes the coroutines had
without_callback == [i \in Idx |-> process_result(outcome[i])]

\* C15: the progress callback is observational only: a batch given a
\* callback returns the list it returns without one (same elements at the
\* same positions, a raised exception handled the same way), and the
\* callback is called with the counts 1..M in increasing order and total M.
C15_CallbackObservationalOnly ==
    with_callback =>
        /\ phase # "raised"
        /\ Returned_batch =>
               /\ website_results = without_callback
               /\ progress = [j \in 1..Len(targets) |-> <<j, Len(targets)>>]

\* C16: a run over an empty target list ends in an error before any fetch or
\* scoring; it does not go on to complete normally with no record.
C16_EmptyTargetListFailsFast ==
    ~(with_callback /\ Len(targets) = 0 /\ phase \in {"scoring", "done"})

\* C17: when a run has ended the scorer has been invoked once for every
\* target, whatever its fetch status; a target with a blank or absent URL got
\* the missing-URL outcome with empty text, no GET and no cache entry, and was
\* scored on its description alone, which for "Document OCR scan" gives a
\* numerisation score above 0.
C17_EveryTargetScoredOnce ==
    RunEnded =>
        /\ Len(scored_startups) = Len(targets)
        /\ \A i \in Idx :
               url_missing(targets[i].website) =>
                   /\ gets[i] = 0
                   /\ outcome[i] = Returned(failure_result(targets[i].website,
                                                           <<"URL manquante">>, "failed"))
                   /\ get_cache_key(targets[i].website) \notin DOMAIN cache
                   /\ \E reply \in RemoteReplies :
                          scored_startups[i].claude_analysis =
                              analyze_startup_relevance(enabled, <<>>,
                                                        targets[i].description, reply)
                   /\ (~enabled /\ targets[i].description = <<"Document", "OCR", "scan">>)
                          => scored_startups[i].claude_analysis.scores["numerisation"] > 0

\* the status of the claims for a result dict of the program: "failed" tells
\* its three causes apart by its error text
OutcomeStatus(r) ==
    CASE r.status = "success" -> <<"Success">>
      [] r.status = "cached" -> <<"Cached">>
      [] r.status = "timeout" -> <<"Timeout">>
      [] r.status = "exception" -> <<"Exception">>
      [] r.status = "failed" /\ r.error = <<"URL manquante">> -> <<"MissingUrl">>
      [] r.status = "failed" /\ Len(r.error) = 2 /\ r.error[1] = "HTTP" ->
             <<"HttpError", r.error[2]>>
      [] OTHER -> <<"Exception">>

\* the status the claims give to a GET that ended with outcome o
StatusOfGet(o) ==
    CASE o.kind = "http" /\ o.status = 200 -> <<"Success">>
      [] o.kind = "http" /\ o.status # 200 -> <<"HttpError", o.status>>
      [] o.kind = "timeout" -> <<"Timeout">>
      [] OTHER -> <<"Exception">>

\* C18: every fetch ends in one outcome whose status follows from its cause:
\* blank or absent URL - MissingUrl; valid cache entry - Cached; HTTP 200 -
\* Success; other HTTP status - HttpError with the code; time-out - Timeout;
\* any other error - Exception, also when it is raised outside the network
\* call; an outcome that is neither Success nor Cached has empty title and
\* text; and the batch hands every such outcome on.
C18_StatusByCause ==
    [][/\ \A i \in Idx :
              (task[i] # "done" /\ task'[i] = "done") =>
                  LET r == process_result(outcome'[i])
                      w == targets[i].website
                      lookup == get_cached_content(cache, w, now)
                  IN  /\ url_missing(w) => OutcomeStatus(r) = <<"MissingUrl">>
                      /\ (task[i] = "pending" /\ ~url_missing(w)) =>
                             OutcomeStatus(r) =
                                 IF lookup.kind = "raise" THEN <<"Exception">> ELSE <<"Cached">>
                      /\ task[i] = "inflight" =>
                             \E o \in NetOutcomes :
                                 /\ outcome'[i] = Returned(fetch_result(clean_url(w), o, now))
                                 /\ OutcomeStatus(r) = StatusOfGet(o)
                      /\ OutcomeStatus(r) \notin {<<"Success">>, <<"Cached">>} =>
                             r.title = <<>> /\ r.content = <<>>
       /\ phase' # "raised"
       /\ (phase = "scraping" /\ Returned_batch') =>
              /\ Len(website_results') = Len(targets)
              /\ \A i \in Idx : \E j \in Idx :
                     website_results'[j] = process_result(outcome[i])]_vars

\* C19: within one run at most one GET is issued per target, and a GET is
\* only ever in flight for a target that has no outcome yet: a fetch that
\* failed, timed out or raised is not tried again.
C19_AtMostOneGet ==
    \A i \in Idx :
        /\ gets[i] <= 1
        /\ task[i] \in {"waiting", "inflight"} => outcome[i] = NoOutcome
        /\ task[i] = "done" => outcome[i] # NoOutcome

\* C19 witness: with limit 1 two targets went to the network one after the
\* other, the first GET timed out, the second got HTTP 404, and the batch
\* returned with one GET each
C19_Witness ==
    /\ Returned_batch
    /\ max_concurrent = 1
    /\ Len(targets) = 2
    /\ \A i \in Idx : gets[i] = 1
    /\ outcome[1] = Returned(failure_result(clean_url(targets[1].website), <<"Timeout">>, "timeout"))
    /\ outcome[2].kind = "return" /\ outcome[2].value.status = "failed"

\* C21: a text made only of one axis keyword repeated 10 times or more (and
\* an empty description) gives that axis exactly 25, every other axis 0 and
\* total_score 25 (in half points: 50).
C21_RepeatedKeywordSaturates ==
    (scored # None /\ scored.returned /\ ~scored.enabled /\ scored.description = <<>>) =>
        \A j \in 1..Len(keywords_mapping) :
            \A k \in 1..Len(keywords_mapping[j].keywords), n \in 10..MaxRepeat :
                lower(scored.content) = RepeatKeyword(keywords_mapping[j].keywords[k], n) =>
                    /\ scored.result.scores[keywords_mapping[j].criterion] = 50
                    /\ \A c \in Criteria \ {keywords_mapping[j].criterion} :
                           scored.result.scores[c] = 0
                    /\ scored.result.total_score = 50

\* C21 witness: "data mining" ten times saturates extraction alone
C21_Witness ==
    /\ scored # None /\ scored.returned /\ ~scored.enabled
    /\ scored.description = <<>>
    /\ scored.content = RepeatKeyword(<<"data", "mining">>, 10)
    /\ scored.result.scores["extraction"] = 50
    /\ scored.result.scores["numerisation"] = 0
    /\ scored.result.total_score = 50

\* kw occurs somewhere in text
Occurs(text, kw) == Occurrences(text, kw) > 0

\* C22: on the keyword path a tag is assigned if and only if at least one
\* keyword of its set occurs as a substring of the lower-cased text and
\* description, one occurrence being enough; an input in which no axis
\* keyword and no tag keyword occurs gets four scores of 0, total 0 and no tag.
C22_TagIffKeywordOccurs ==
    (scored # None /\ scored.returned /\ ~scored.enabled) =>
        LET text == lower(scored.content \o scored.description)
            assigned == {scored.result.tags[i] : i \in 1..Len(scored.result.tags)}
            tagged(e) == \E k \in 1..Len(tag_keywords[e].keywords) :
                             Occurs(text, tag_keywords[e].keywords[k])
        IN  /\ \A e \in 1..Len(tag_keywords) : tag_keywords[e].tag \in assigned <=> tagged(e)
            /\ Len(scored.result.tags) = Cardinality(assigned)
            /\ ((\A kw \in AxisKeywords : ~Occurs(text, kw))
                    /\ (\A e \in 1..Len(tag_keywords) : ~tagged(e)))
                   => /\ \A c \in Criteria : scored.result.scores[c] = 0
                      /\ scored.result.total_score = 0
                      /\ scored.result.tags = <<>>

\* C22 witness: "sustainability" once is the RSE keyword and holds "ai", a
\* keyword of Game Changer; no axis keyword occurs
C22_Witness ==
    /\ scored # None /\ scored.returned /\ ~scored.enabled
    /\ scored.content = <<"flowers", "sustainability">>
    /\ scored.description = <<>>
    /\ scored.result.tags = <<"RSE", "Game Changer">>
    /\ scored.result.total_score = 0

\* no keyword at all: "flowers"
C22_WitnessNoMatch ==
    /\ scored # None /\ scored.returned /\ ~scored.enabled
    /\ scored.content = <<"flowers">>
    /\ scored.description = <<"flowers">>
    /\ scored.result.tags = <<>>
    /\ scored.result.total_score = 0

\* every axis keyword, by axis and then by place in the axis's list
AllAxisKeywords ==
    Flatten([j \in 1..Len(keywords_mapping) |-> keywords_mapping[j].keywords])

\* the axis keywords that occur in text, in that order
RECURSIVE MatchedFrom(_, _)
MatchedFrom(text, i) ==
    IF i > Len(AllAxisKeywords) THEN <<>>
    ELSE IF Occurs(text, AllAxisKeywords[i])
         THEN <<AllAxisKeywords[i]>> \o MatchedFrom(text, i + 1)
         ELSE MatchedFrom(text, i + 1)

\* C23: every returned analysis has at most 10 entries in keywords_found; on
\* the keyword path the list is made of the first 10 (or fewer) distinct
\* matched keywords, by axis (numerisation, extraction, certification,
\* mise_disposition) and within an axis by place in its keyword list.
C23_KeywordsFoundAtMostTen ==
    (scored # None /\ scored.returned) =>
        LET found == Get(scored.result, "keywords_found", <<>>)
            matched == MatchedFrom(lower(scored.content \o scored.description), 1)
        IN  /\ Len(found) <= 10
            /\ ~scored.enabled =>
                   /\ found = Take(matched, 10)
                   /\ \A i, j \in 1..Len(found) : found[i] = found[j] => i = j

C25_StrategyFixedAtConstruction ==
    calls # None =>
        \A i \in 1..Len(calls.made) :
            /\ calls.made[i].remote = enabled
            /\ ~enabled =>
                   /\ calls.made[i].result = _fallback_analysis(calls.made[i].content, calls.made[i].description)
                   /\ calls.made[i].result.justification = FallbackJustification

\* C25 witness: three calls on an analyzer with a key, one answered and two
\* not, each of which went to the remote service first
C25_Witness ==
    /\ calls # None /\ enabled /\ Len(calls.made) = 3
    /\ \A i \in 1..3 : calls.made[i].remote
    /\ calls.made[1].result.justification = "remote"
    /\ calls.made[2].result.justification = FallbackJustification
    /\ calls.made[3].result.justification = FallbackJustification

\* list is the first Len(list) elements of a rearrangement of records in
\* which no total_score is followed by a higher one
SortedPrefixOf(list, records) ==
    /\ \A i \in 1..(Len(list) - 1) : list[i].total_score >= list[i + 1].total_score
    /\ \E f \in [1..Len(list) -> 1..Len(records)] :
           /\ \A i, j \in 1..Len(list) : f[i] = f[j] => i = j
           /\ \A i \in 1..Len(list) : list[i] = records[f[i]]
           /\ \A j \in 1..Len(records) :
                  (\A i \in 1..Len(list) : f[i] # j) =>
                      \A i \in 1..Len(list) : list[i].total_score >= records[j].total_score

\* C26: the record list keeps input order: a reporting function leaves
\* scored_startups as it was, and what it puts out is a prefix, as long as
\* its cap allows, of the records sorted by total_score, highest first.
C26_ReportingLeavesRecords ==
    reported # None =>
        /\ scored_startups = reported.before
        /\ Len(scored_startups) = Len(targets)
        /\ \A i \in Idx : scored_startups[i].name = targets[i].name
        /\ Len(reported.list) = Min(reported.cap, Len(reported.before))
        /\ SortedPrefixOf(reported.list, reported.before)

\* C26 witness: two records of which the second has the higher score; the
\* report of one record is the second record, the list is as it was
C26_Witness ==
    /\ reported # None
    /\ reported.cap = 1
    /\ Len(scored_startups) = 2
    /\ scored_startups[1].total_score < scored_startups[2].total_score
    /\ reported.list = <<scored_startups[2]>>
    /\ scored_startups = reported.before

\* C29: every record of a run has a scraping_status among success, cached,
\* failed, timeout and exception, never unknown, so that the counters of
\* export_results_v2 add up to the number of records.
C29_StatusesPartitionRecords ==
    /\ \A j \in 1..Len(scored_startups) :
           scored_startups[j].scraping_status
               \in {"success", "cached", "failed", "timeout", "exception"}
    /\ (reported # None /\ reported.function = "export_results_v2") =>
           /\ reported.stats.total_analyzed = Len(scored_startups)
           /\ reported.stats.successful_scrapes + reported.stats.cached_results
                  + reported.stats.failed_scrapes = reported.stats.total_analyzed

\* C29 witness: an export over one record answered from the cache and one
\* whose GET timed out
C29_Witness ==
    /\ reported # None /\ reported.function = "export_results_v2"
    /\ Len(scored_startups) = 2
    /\ \E i, j \in 1..2 : /\ scored_startups[i].scraping_status = "cached"
                          /\ scored_startups[j].scraping_status = "timeout"
    /\ reported.stats.cached_results = 1
    /\ reported.stats.failed_scrapes = 1

\* C27: cache_content overwrites unconditionally. After cache_content(url, p1)
\* and then cache_content(url, p2), get_cached_content(url) returns p2 while
\* the second write is younger than the cache duration and None from then
\* on, whatever the age of the first write; the store holds one entry for
\* each key written, however many writes there were.
C27_PutOverwrites ==
    /\ (got # None /\ got.stored # None /\ got.stored.prev # None) =>
           /\ got.at - got.stored.at < cache_duration_days
                  => got.result = Returned(got.stored.payload)
           /\ got.at - got.stored.at >= cache_duration_days
                  => got.result = Returned(None)
    /\ DOMAIN cache = {get_cache_key(u) : u \in DOMAIN written}
    /\ \A u \in DOMAIN written :
           /\ cache[get_cache_key(u)].content = written[u].payload
           /\ fromisoformat(cache[get_cache_key(u)].timestamp) = written[u].at

\* C27 witness: p1 written, a different p2 written later under the same url,
\* and a get when the first write is a cache duration old and the second is
\* not: p2 is returned
C27_Witness ==
    /\ got # None /\ got.stored # None /\ got.stored.prev # None
    /\ got.stored.prev.payload # got.stored.payload
    /\ got.stored.prev.at < got.stored.at
    /\ got.at - got.stored.prev.at >= cache_duration_days
    /\ got.at - got.stored.at < cache_duration_days
    /\ got.result = Returned(got.stored.payload)

\* C28: get_cached_content leaves the store as it was, on a hit, on a miss
\* and on an expired entry; what it returns for a stored url depends only on
\* the age of the last write: the payload while that age is below the cache
\* duration, None from then on, however many reads came before.
C28_GetLeavesStore ==
    [][(\E url \in ApiUrls : ApiGet(url)) =>
           /\ cache' = cache
           /\ got'.stored # None =>
                  got'.result = IF got'.at - got'.stored.at < cache_duration_days
                                THEN Returned(got'.stored.payload)
                                ELSE Returned(None)
           /\ got'.stored = None => got'.result = Returned(None)]_vars

\* C28 witness: an entry read before is read again when it is exactly one
\* cache duration old: None is returned and the entry is still in the store
\* with the timestamp of its write
C28_Witness ==
    /\ got # None /\ got.stored # None
    /\ got.stored.reads = MaxReads
    /\ got.at - got.stored.at = cache_duration_days
    /\ got.result = Returned(None)
    /\ get_cache_key(got.url) \in DOMAIN cache
    /\ fromisoformat(cache[get_cache_key(got.url)].timestamp) = got.stored.at
    /\ cache[get_cache_key(got.url)].content = got.stored.payload

\* C28 witness: the second read of an entry is a hit like the first, six
\* days after a write that the reads did not move
C28_WitnessHit ==
    /\ got # None /\ got.stored # None
    /\ got.stored.reads = MaxReads
    /\ got.at - got.stored.at = cache_duration_days - 1
    /\ got.result = Returned(got.stored.payload)
    /\ fromisoformat(cache[get_cache_key(got.url)].timestamp) = got.stored.at

\* what the cache lookup of scrape_single_website gives for target i now
lookup_of(i) == get_cached_content(cache, targets[i].website, now)
cache_hit(i) == lookup_of(i).kind = "return" /\ Truthy(lookup_of(i).value)
cache_miss(i) == lookup_of(i).kind = "return" /\ ~Truthy(lookup_of(i).value)

\* C30: with a concurrency limit of 0 no GET is ever issued; a target with a
\* non-blank URL that misses the cache waits on the semaphore and is never
\* woken, and while one target waits scrape_websites_batch has not returned;
\* a target with a blank URL or a valid cache entry completes without the
\* semaphore, as a failure and as a cached result.
C30_LimitZeroBlocks ==
    (phase # "idle" /\ max_concurrent = 0) =>
        /\ sem = 0 /\ InFlight = {}
        /\ \A i \in Idx : gets[i] = 0
        /\ (\E i \in Idx : task[i] = "waiting") => ~Returned_batch
        /\ \A i \in Idx : task[i] # "pending" =>
               /\ url_missing(targets[i].website) =>
                      /\ task[i] = "done"
                      /\ outcome[i].kind = "return" /\ outcome[i].value.status = "failed"
               /\ (~url_missing(targets[i].website) /\ cache_hit(i)) =>
                      /\ task[i] = "done"
                      /\ outcome[i].kind = "return" /\ outcome[i].value.status = "cached"
               /\ (~url_missing(targets[i].website) /\ cache_miss(i)) =>
                      task[i] = "waiting"

\* C30 witness: limit 0, every coroutine started: the target cached by an
\* earlier run is done with status cached, the other one waits with no GET
\* issued, and the batch is still in scrape_websites_batch
C30_Witness ==
    /\ max_concurrent = 0 /\ phase = "scraping" /\ AllStarted
    /\ Len(targets) = 2
    /\ \E i, j \in Idx :
           /\ task[i] = "done" /\ outcome[i].kind = "return"
           /\ outcome[i].value.status = "cached"
           /\ task[j] = "waiting" /\ gets[j] = 0 /\ waiters = <<j>>

\* C30 witness: limit 0, the target with a blank URL is done as a failure
\* while the other one waits
C30_WitnessBlankUrl ==
    /\ max_concurrent = 0 /\ phase = "scraping" /\ AllStarted
    /\ \E i, j \in Idx :
           /\ url_missing(targets[i].website) /\ task[i] = "done"
           /\ outcome[i].value.status = "failed"
           /\ task[j] = "waiting" /\ gets[j] = 0

\* C30 witness: limit 0 and nothing to fetch: the batch returns
C30_WitnessReturns ==
    /\ max_concurrent = 0 /\ Returned_batch /\ Len(targets) = 2
    /\ \A i \in Idx : outcome[i].kind = "return" /\ outcome[i].value.status = "cached"

====
